---- MODULE Spec2Model ----
(***************************************************************************)
(* Model of the "Hacker Stories" single-page application (src/src/App.js): *)
(* the semi-persistent search term (useSemiPersistentState over            *)
(* localStorage), the stories reducer, and the asynchronous fetch that is  *)
(* re-run whenever the request url changes.                                *)
(*                                                                         *)
(* JavaScript strings are strings, and template-literal concatenation is   *)
(* \o.  A localStorage slot and the result of getItem are optional         *)
(* strings: <<>> is an absent slot (getItem returns null), <<s>> is a slot *)
(* that holds the string s.                                                *)
(***************************************************************************)
EXTENDS Naturals, Sequences, FiniteSets, TLC

\* ------------------------------------------------------------------ bounds

\* longest search term the user types
MaxTermLen == 2
\* number of distinct stories the remote search service can return
NumStories == 2
\* longest hit list of one response
MaxHits == 2
\* requests that may be issued in one session
MaxRequests == 2
\* longest data list the reducer is given when it is checked alone
NumItems == 3

\* ------------------------------------------------------------------ values

Chars == {"a"}

RECURSIVE StringsOfLen(_)
StringsOfLen(n) ==
  IF n = 0 THEN {""}
  ELSE {s \o c : s \in StringsOfLen(n - 1), c \in Chars}

\* the strings an input event can carry (event.target.value)
Terms == UNION {StringsOfLen(n) : n \in 0..MaxTermLen}

\* localStorage keys; the application uses only "search"
Keys == {"other", "search"}

\* values of one localStorage slot
Slots == {<<>>} \cup {<<t>> : t \in Terms}

\* a story; objectID is its identity
Story(i) == [objectID |-> i, title |-> IF i % 2 = 0 THEN "React" ELSE "Redux"]

\* the stories of the remote service
Stories == {Story(i) : i \in 0..(NumStories - 1)}

RECURSIVE ListsOfLen(_, _)
\* the lists of n stories of S without a repeated objectID
ListsOfLen(S, n) ==
  IF n = 0 THEN {<<>>}
  ELSE UNION {{Append(l, s) : s \in S \ {l[i] : i \in 1..Len(l)}} :
                l \in ListsOfLen(S, n - 1)}

\* result.data.hits of a resolved request
Payloads == UNION {ListsOfLen(Stories, n) : n \in 0..MaxHits}

\* the items a REMOVE_STORY action can carry when the reducer is checked alone
Items == {Story(i) : i \in 0..NumItems}

\* the data lists the reducer is given then: they leave one item in no list
DataLists ==
  UNION {ListsOfLen({Story(i) : i \in 0..(NumItems - 1)}, n) : n \in 0..NumItems}

API_ENDPOINT == "https://hn.algolia.com/api/v1/search?query="

\* ------------------------------------------------------------------ state

VARIABLES
  localStorage,   \* browser storage: key -> optional string
  key,            \* first argument of useSemiPersistentState
  initialState,   \* second argument of useSemiPersistentState
  mounted,        \* the component is mounted
  searchTerm,     \* value of useSemiPersistentState
  url,            \* the request target (useState)
  stories,        \* state of useReducer(storiesReducer, ...)
  requests,       \* requests issued by handleFetchStories, in issue order
  threw,          \* the last dispatch made the reducer throw
  lastEvent,      \* history: the handler that ran last, with what it carried
  slotAtInit,     \* history: what getItem(key) returned at initialization
  submittedTerm,  \* history: the search term at the last mount or submission
  lastAction,     \* history of dispatches: the action dispatched last
  prev,           \* history of dispatches: the state before the last dispatch
  initData,       \* history of dispatches: data as last replaced
  removedIDs      \* history of dispatches: objectIDs removed since then

vars == << localStorage, key, initialState, mounted, searchTerm, url, stories,
           requests, threw, lastEvent, slotAtInit, submittedTerm, lastAction,
           prev, initData, removedIDs >>

storeVars == << localStorage, key, initialState, mounted, searchTerm, slotAtInit >>

appVars == << url, requests, submittedTerm >>

dispatchHistory == << lastAction, prev, initData, removedIDs >>

\* ------------------------------------------------------------------ persisted value

getItem(k) == localStorage[k]

setItem(k, v) == [localStorage EXCEPT ![k] = <<v>>]

\* JavaScript a || b on an optional string a: null and "" are falsy
OrElse(a, b) == IF a = <<>> \/ a[1] = "" THEN b ELSE a[1]

\* the initial value of the hook's state
useSemiPersistentState(k, initial) == OrElse(getItem(k), initial)

\* the hook at the first render, and its effect: the value is written back
HookInit ==
  /\ slotAtInit' = getItem(key)
  /\ searchTerm' = useSemiPersistentState(key, initialState)
  /\ localStorage' = setItem(key, searchTerm')

\* setValue(value), and the effect that runs when the value changed
HookSetValue(value) ==
  /\ searchTerm' = value
  /\ localStorage' = IF value # searchTerm THEN setItem(key, value) ELSE localStorage

\* ------------------------------------------------------------------ reducer

Error == [error |-> TRUE]

initialStories == [data |-> <<>>, isError |-> FALSE, isLoading |-> FALSE]

\* STORIES_FETCH_INIT that leaves the error flag as it was
STORIES_FETCH_INIT_KeepingError(state, action) ==
  [state EXCEPT !.isLoading = TRUE]

\* STORIES_FETCH_INIT that starts from an empty state
STORIES_FETCH_INIT_Clearing(state, action) ==
  [state EXCEPT !.isLoading = TRUE, !.isError = FALSE, !.data = <<>>]

STORIES_FETCH_INIT(state, action) ==
  [state EXCEPT !.isLoading = TRUE, !.isError = FALSE]

\* STORIES_FETCH_SUCCESS that appends the payload to the previous data
STORIES_FETCH_SUCCESS_Appending(state, action) ==
  [state EXCEPT !.isLoading = FALSE, !.isError = FALSE,
                !.data = state.data \o action.payload]

\* a success case that leaves the loading flag as it was
STORIES_FETCH_SUCCESS_KeepingLoading(state, action) ==
  [state EXCEPT !.isError = FALSE, !.data = action.payload]

STORIES_FETCH_SUCCESS(state, action) ==
  [state EXCEPT !.isLoading = FALSE, !.isError = FALSE, !.data = action.payload]

\* STORIES_FETCH_FAILURE that drops the data
STORIES_FETCH_FAILURE_Clearing(state, action) ==
  [state EXCEPT !.isLoading = FALSE, !.isError = TRUE, !.data = <<>>]

\* a failure case that leaves the loading flag as it was
STORIES_FETCH_FAILURE_KeepingLoading(state, action) ==
  [state EXCEPT !.isError = TRUE]

STORIES_FETCH_FAILURE(state, action) ==
  [state EXCEPT !.isLoading = FALSE, !.isError = TRUE]

\* REMOVE_STORY that clears the error flag as well
REMOVE_STORY_ClearingError(state, action) ==
  [state EXCEPT !.isError = FALSE, !.data =
     SelectSeq(state.data, LAMBDA story : action.payload.objectID # story.objectID)]

\* REMOVE_STORY by findIndex and splice: an index of -1 removes the last story
REMOVE_STORY_Splicing(state, action) ==
  [state EXCEPT !.data =
     IF \E i \in DOMAIN state.data : state.data[i].objectID = action.payload.objectID
     THEN SelectSeq(state.data, LAMBDA story : action.payload.objectID # story.objectID)
     ELSE SubSeq(state.data, 1, Len(state.data) - 1)]

\* REMOVE_STORY that drops the story after the removed one as well
REMOVE_STORY_OffByOne(state, action) ==
  [state EXCEPT !.data =
     SelectSeq(state.data, LAMBDA story :
       /\ action.payload.objectID # story.objectID
       /\ ~\E i \in 2..Len(state.data) :
            /\ state.data[i] = story
            /\ state.data[i - 1].objectID = action.payload.objectID)]

REMOVE_STORY(state, action) ==
  [state EXCEPT !.data =
     SelectSeq(state.data, LAMBDA story : action.payload.objectID # story.objectID)]

\* a reducer whose default case returns the state
storiesReducer_IgnoringUnknown(state, action) ==
  CASE action.type = "STORIES_FETCH_INIT" -> STORIES_FETCH_INIT(state, action)
    [] action.type = "STORIES_FETCH_SUCCESS" -> STORIES_FETCH_SUCCESS(state, action)
    [] action.type = "STORIES_FETCH_FAILURE" -> STORIES_FETCH_FAILURE(state, action)
    [] action.type = "REMOVE_STORY" -> REMOVE_STORY(state, action)
    [] OTHER -> state

storiesReducer(state, action) ==
  CASE action.type = "STORIES_FETCH_INIT" -> STORIES_FETCH_INIT(state, action)
    [] action.type = "STORIES_FETCH_SUCCESS" -> STORIES_FETCH_SUCCESS(state, action)
    [] action.type = "STORIES_FETCH_FAILURE" -> STORIES_FETCH_FAILURE(state, action)
    [] action.type = "REMOVE_STORY" -> REMOVE_STORY(state, action)
    [] OTHER -> Error

\* dispatchStories(action): the reducer's result becomes the state; a throw
\* leaves the state as it was
dispatchStories(action) ==
  LET next == storiesReducer(stories, action) IN
  /\ stories' = IF next = Error THEN stories ELSE next
  /\ threw' = (next = Error)

Event(type, req, payload) == [payload |-> payload, req |-> req, type |-> type]

NoEvent == Event("none", 0, <<>>)

NoAction == [type |-> "none"]

\* ------------------------------------------------------------------ application

\* the part of handleFetchStories that runs before the await: the request
\* for u is issued and STORIES_FETCH_INIT is dispatched
handleFetchStories(u) ==
  /\ dispatchStories([type |-> "STORIES_FETCH_INIT"])
  /\ requests' = Append(requests, [status |-> "pending", url |-> u])

\* a first render whose first request asks for the default term
Mount_FromDefault ==
  /\ ~mounted
  /\ HookInit
  /\ url' = API_ENDPOINT \o initialState
  /\ submittedTerm' = initialState
  /\ handleFetchStories(url')
  /\ mounted' = TRUE
  /\ lastEvent' = Event("mount", 0, <<>>)
  /\ UNCHANGED << key, initialState, dispatchHistory >>

\* first render of App and its effects: the hook reads the slot, the url is
\* built from the search term, the value is written back and the first
\* request is issued
Mount ==
  /\ ~mounted
  /\ HookInit
  /\ url' = API_ENDPOINT \o searchTerm'
  /\ submittedTerm' = searchTerm'
  /\ handleFetchStories(url')
  /\ mounted' = TRUE
  /\ lastEvent' = Event("mount", 0, <<>>)
  /\ UNCHANGED << key, initialState, dispatchHistory >>

\* a keystroke that searches as the user types: it sets the url as well
handleSearchInput_SettingUrl(value) ==
  /\ mounted
  /\ HookSetValue(value)
  /\ url' = API_ENDPOINT \o value
  /\ IF url' # url /\ Len(requests) < MaxRequests
     THEN handleFetchStories(url')
     ELSE UNCHANGED << requests, stories, threw >>
  /\ lastEvent' = Event("input", 0, <<>>)
  /\ UNCHANGED << key, initialState, mounted, slotAtInit, submittedTerm, dispatchHistory >>

\* a keystroke: the search term changes and the effect writes it back
handleSearchInput(value) ==
  /\ mounted
  /\ HookSetValue(value)
  /\ lastEvent' = Event("input", 0, <<>>)
  /\ UNCHANGED << key, initialState, mounted, slotAtInit, appVars, stories, threw,
                  dispatchHistory >>

\* a submit button that fetches on every click, the url changed or not
handleSearchSubmit_AlwaysFetching ==
  /\ mounted
  /\ searchTerm # ""
  /\ url' = API_ENDPOINT \o searchTerm
  /\ submittedTerm' = searchTerm
  /\ Len(requests) < MaxRequests
  /\ handleFetchStories(url')
  /\ lastEvent' = Event("submit", 0, <<>>)
  /\ UNCHANGED << storeVars, dispatchHistory >>

\* the submit button (disabled while the search term is empty): the url is
\* set; when its value changed, handleFetchStories is rebuilt and its effect
\* runs it
handleSearchSubmit ==
  /\ mounted
  /\ searchTerm # ""
  /\ url' = API_ENDPOINT \o searchTerm
  /\ submittedTerm' = searchTerm
  /\ IF url' # url
     THEN /\ Len(requests) < MaxRequests
          /\ handleFetchStories(url')
     ELSE UNCHANGED << requests, stories, threw >>
  /\ lastEvent' = Event("submit", 0, <<>>)
  /\ UNCHANGED << storeVars, dispatchHistory >>

\* a Dismiss button that shows the loading state after the removal
handleRemoveStory_Reloading(item) ==
  /\ mounted
  /\ ~stories.isLoading
  /\ \E i \in DOMAIN stories.data : stories.data[i] = item
  /\ stories' = STORIES_FETCH_INIT(
                  REMOVE_STORY(stories, [payload |-> item, type |-> "REMOVE_STORY"]),
                  [type |-> "STORIES_FETCH_INIT"])
  /\ threw' = FALSE
  /\ lastEvent' = Event("remove", 0, <<item>>)
  /\ UNCHANGED << storeVars, appVars, dispatchHistory >>

\* the Dismiss button of a listed story (the list is rendered while not loading)
handleRemoveStory(item) ==
  /\ mounted
  /\ ~stories.isLoading
  /\ \E i \in DOMAIN stories.data : stories.data[i] = item
  /\ dispatchStories([payload |-> item, type |-> "REMOVE_STORY"])
  /\ lastEvent' = Event("remove", 0, <<item>>)
  /\ UNCHANGED << storeVars, appVars, dispatchHistory >>

\* a resolution that is dropped unless it answers the newest request
Resolve_IgnoringStale(i, hits) ==
  /\ mounted
  /\ i \in DOMAIN requests
  /\ requests[i].status = "pending"
  /\ requests' = [requests EXCEPT ![i].status = "resolved"]
  /\ IF i = Len(requests)
     THEN dispatchStories([payload |-> hits, type |-> "STORIES_FETCH_SUCCESS"])
     ELSE UNCHANGED << stories, threw >>
  /\ lastEvent' = Event("resolve", i, hits)
  /\ UNCHANGED << storeVars, url, submittedTerm, dispatchHistory >>

\* axios.get of request i resolves with the given hits
Resolve(i, hits) ==
  /\ mounted
  /\ i \in DOMAIN requests
  /\ requests[i].status = "pending"
  /\ requests' = [requests EXCEPT ![i].status = "resolved"]
  /\ dispatchStories([payload |-> hits, type |-> "STORIES_FETCH_SUCCESS"])
  /\ lastEvent' = Event("resolve", i, hits)
  /\ UNCHANGED << storeVars, url, submittedTerm, dispatchHistory >>

\* what the awaited axios.get may throw: no connection, a status outside 2xx,
\* anything else
Errors ==
  { [message |-> "Network Error"],
    [message |-> "Request failed with status code 404"],
    [message |-> "timeout exceeded"] }

\* a catch block that reports only a failed connection
Reject_OnlyNetworkError(i, error) ==
  /\ mounted
  /\ i \in DOMAIN requests
  /\ requests[i].status = "pending"
  /\ requests' = [requests EXCEPT ![i].status = "rejected"]
  /\ IF error.message = "Network Error"
     THEN dispatchStories([type |-> "STORIES_FETCH_FAILURE"])
     ELSE UNCHANGED << stories, threw >>
  /\ lastEvent' = Event("reject", i, << error >>)
  /\ UNCHANGED << storeVars, url, submittedTerm, dispatchHistory >>

\* axios.get of request i rejects with the given error: the catch block has no
\* binding and dispatches the failure whatever was thrown
Reject(i, error) ==
  /\ mounted
  /\ i \in DOMAIN requests
  /\ requests[i].status = "pending"
  /\ requests' = [requests EXCEPT ![i].status = "rejected"]
  /\ dispatchStories([type |-> "STORIES_FETCH_FAILURE"])
  /\ lastEvent' = Event("reject", i, << error >>)
  /\ UNCHANGED << storeVars, url, submittedTerm, dispatchHistory >>

\* the state of a component that is not mounted
Unmounted ==
  /\ mounted = FALSE
  /\ searchTerm = ""
  /\ slotAtInit = <<>>
  /\ url = ""
  /\ submittedTerm = ""
  /\ requests = <<>>
  /\ stories = initialStories
  /\ threw = FALSE
  /\ lastEvent = NoEvent

NoDispatchHistory ==
  /\ lastAction = NoAction
  /\ prev = initialStories
  /\ initData = <<>>
  /\ removedIDs = {}

\* the page is closed: the component's state is gone, localStorage stays
Unload ==
  /\ mounted
  /\ mounted' = FALSE
  /\ searchTerm' = ""
  /\ slotAtInit' = <<>>
  /\ url' = ""
  /\ submittedTerm' = ""
  /\ requests' = <<>>
  /\ stories' = initialStories
  /\ threw' = FALSE
  /\ lastEvent' = NoEvent
  /\ UNCHANGED << localStorage, key, initialState, dispatchHistory >>

\* App calls useSemiPersistentState('search', ''); the slot may hold any
\* value a previous session left
Init ==
  /\ key = "search"
  /\ initialState = ""
  /\ \E s \in Slots : localStorage = [k \in Keys |-> IF k = "search" THEN s ELSE <<>>]
  /\ Unmounted
  /\ NoDispatchHistory

Next ==
  \/ Mount
  \/ \E value \in Terms : handleSearchInput(value)
  \/ handleSearchSubmit
  \/ \E item \in Stories : handleRemoveStory(item)
  \/ \E i \in 1..MaxRequests, hits \in Payloads : Resolve(i, hits)
  \/ \E i \in 1..MaxRequests, error \in Errors : Reject(i, error)
  \/ Unload

Spec == Init /\ [][Next]_vars

\* ------------------------------------------------------------------ the reducer alone

\* every state the reducer can be given
ResultStates ==
  [data : DataLists, isError : BOOLEAN, isLoading : BOOLEAN]

\* the action types without a payload, one of them unknown to the reducer
PlainTypes == {"STORIES_FETCH_INIT", "STORIES_FETCH_FAILURE", "FOO"}

\* one dispatch, with its history
Dispatch(action) ==
  /\ dispatchStories(action)
  /\ lastAction' = action
  /\ prev' = stories
  /\ initData' = IF action.type = "STORIES_FETCH_SUCCESS" THEN action.payload ELSE initData
  /\ removedIDs' = CASE action.type = "STORIES_FETCH_SUCCESS" -> {}
                     [] action.type = "REMOVE_STORY" ->
                          removedIDs \cup {action.payload.objectID}
                     [] OTHER -> removedIDs
  /\ UNCHANGED << storeVars, appVars, lastEvent >>

InitReducer ==
  /\ key = "search"
  /\ initialState = ""
  /\ localStorage = [k \in Keys |-> <<>>]
  /\ mounted = FALSE
  /\ searchTerm = ""
  /\ slotAtInit = <<>>
  /\ url = ""
  /\ submittedTerm = ""
  /\ requests = <<>>
  /\ lastEvent = NoEvent
  /\ threw = FALSE
  /\ stories \in ResultStates
  /\ lastAction = NoAction
  /\ prev = stories
  /\ initData = stories.data
  /\ removedIDs = {}

NextReducer ==
  \/ \E type \in PlainTypes : Dispatch([type |-> type])
  \/ \E hits \in DataLists : Dispatch([payload |-> hits, type |-> "STORIES_FETCH_SUCCESS"])
  \/ \E item \in Items : Dispatch([payload |-> item, type |-> "REMOVE_STORY"])

SpecReducer == InitReducer /\ [][NextReducer]_vars

\* ------------------------------------------------------------------ the hook alone

StoreMount ==
  /\ ~mounted
  /\ HookInit
  /\ mounted' = TRUE
  /\ lastEvent' = Event("mount", 0, <<>>)
  /\ UNCHANGED << key, initialState, appVars, stories, threw, dispatchHistory >>

StoreSetValue(value) ==
  /\ mounted
  /\ HookSetValue(value)
  /\ lastEvent' = Event("input", 0, <<>>)
  /\ UNCHANGED << key, initialState, mounted, slotAtInit, appVars, stories, threw,
                  dispatchHistory >>

\* the hook called with any key and any initial state, over any storage
InitStore ==
  /\ key \in Keys
  /\ initialState \in Terms
  /\ localStorage \in [Keys -> Slots]
  /\ Unmounted
  /\ NoDispatchHistory

NextStore ==
  \/ StoreMount
  \/ \E value \in Terms : StoreSetValue(value)
  \/ Unload

SpecStore == InitStore /\ [][NextStore]_vars

\* ------------------------------------------------------------------ claims

\* C1: whatever the prior state, STORIES_FETCH_SUCCESS with payload P yields
\* isLoading = false, isError = false and data = P, with nothing of the
\* previous data kept.
C1_SuccessReplacesData ==
  (lastAction.type = "STORIES_FETCH_SUCCESS") =>
    stories = [data |-> lastAction.payload, isError |-> FALSE, isLoading |-> FALSE]

\* a success dispatched on a loading, failed state whose data differs from the payload
C1_Witness ==
  /\ lastAction.type = "STORIES_FETCH_SUCCESS"
  /\ prev.isLoading /\ prev.isError
  /\ Len(prev.data) >= 2
  /\ lastAction.payload # <<>>
  /\ \E i \in DOMAIN prev.data :
       \A j \in DOMAIN lastAction.payload : prev.data[i] # lastAction.payload[j]
  /\ stories.data = lastAction.payload

\* C2: whatever the prior state, STORIES_FETCH_FAILURE yields isLoading = false
\* and isError = true and leaves data as it was, element for element.
C2_FailureKeepsData ==
  (lastAction.type = "STORIES_FETCH_FAILURE") =>
    /\ ~stories.isLoading
    /\ stories.isError
    /\ stories.data = prev.data

\* a failure dispatched on a loading state that holds several stories
C2_Witness ==
  /\ lastAction.type = "STORIES_FETCH_FAILURE"
  /\ prev.isLoading /\ ~prev.isError
  /\ Len(prev.data) >= 2
  /\ stories.isError

\* C3: whatever the prior state, STORIES_FETCH_INIT yields isLoading = true and
\* isError = false and leaves data as it was.
C3_InitKeepsData ==
  (lastAction.type = "STORIES_FETCH_INIT") =>
    /\ stories.isLoading
    /\ ~stories.isError
    /\ stories.data = prev.data

\* an init dispatched on a failed state that holds several stories
C3_Witness ==
  /\ lastAction.type = "STORIES_FETCH_INIT"
  /\ prev.isError /\ ~prev.isLoading
  /\ Len(prev.data) >= 2
  /\ stories.isLoading

\* C4: after any sequence of REMOVE_STORY actions on a list of stories with
\* unique objectIDs, data is that list without the stories whose objectID was
\* removed, the others in their original order.
C4_RemoveIsSetDifference ==
  stories.data = SelectSeq(initData, LAMBDA story : story.objectID \notin removedIDs)

\* two removals, one of them of a story in no list, that leave two of three stories
C4_Witness ==
  /\ lastAction.type = "REMOVE_STORY"
  /\ Cardinality(removedIDs) >= 2
  /\ Len(initData) = 3
  /\ Len(stories.data) = 2
  /\ \E id \in removedIDs : \A i \in DOMAIN initData : initData[i].objectID # id

\* C5: in every reachable state of the application, whatever the interleaving
\* of mount, keystrokes, submissions, removals and request outcomes, isLoading
\* and isError are not both true.
C5_NotLoadingAndError == ~(stories.isLoading /\ stories.isError)

\* overlapping requests: one has rejected while another is still in flight
C5_Witness ==
  /\ stories.isError
  /\ \E i \in DOMAIN requests : requests[i].status = "rejected"
  /\ \E i \in DOMAIN requests : requests[i].status = "pending"

\* C6: a request issued while another is in flight neither cancels nor mutes
\* it: an issued request stays as issued until its own outcome, and each
\* outcome is applied when it arrives, in settling order, whether or not the
\* request is the newest (last resolved wins).
C6_OutcomesAppliedInSettlingOrder ==
  [][mounted /\ mounted' =>
       \A i \in DOMAIN requests :
         /\ i \in DOMAIN requests'
         /\ requests'[i].url = requests[i].url
         /\ requests[i].status # "pending" => requests'[i].status = requests[i].status
         /\ (requests[i].status = "pending" /\ requests'[i].status = "resolved") =>
              /\ lastEvent'.type = "resolve" /\ lastEvent'.req = i
              /\ stories' = [data |-> lastEvent'.payload, isError |-> FALSE,
                             isLoading |-> FALSE]
         /\ (requests[i].status = "pending" /\ requests'[i].status = "rejected") =>
              /\ lastEvent'.type = "reject" /\ lastEvent'.req = i
              /\ stories' = [data |-> stories.data, isError |-> TRUE,
                             isLoading |-> FALSE]
         /\ (requests[i].status = "pending" /\ requests'[i].status = "pending") =>
              ~(lastEvent'.type \in {"resolve", "reject"} /\ lastEvent'.req = i)
    ]_vars

\* data holds the payload of the older request, which resolved last, although
\* the url names the newer request and the newer request has resolved already
C6_Witness ==
  /\ Len(requests) = 2
  /\ requests[1].status = "resolved" /\ requests[2].status = "resolved"
  /\ lastEvent.type = "resolve" /\ lastEvent.req = 1
  /\ url = requests[2].url /\ url # requests[1].url
  /\ stories.data = lastEvent.payload /\ stories.data # <<>>

\* C7: a request is issued exactly when the url changes value, its
\* establishment at mount included: each change issues one request, for the new
\* url, and a step that leaves the url unchanged issues none.
C7_RequestIffTargetChanges ==
  [][mounted' =>
       /\ Len(requests') \in {Len(requests), Len(requests) + 1}
       /\ (Len(requests') = Len(requests) + 1) <=> (url' # url)
       /\ url' # url =>
            requests'[Len(requests')] = [status |-> "pending", url |-> url']
    ]_vars

\* a submission changed the url and issued the second request, for that url
C7_Witness ==
  /\ lastEvent.type = "submit"
  /\ Len(requests) = 2
  /\ requests[2].url = url
  /\ requests[1].url # url

\* C8: once isError is true it stays true until the user submits again, and a
\* submission after a failure starts a new request, which makes isLoading true
\* and isError false.
C8_RecoveryBySubmission ==
  [][(mounted /\ mounted' /\ stories.isError) =>
       /\ ~stories'.isError => lastEvent'.type = "submit"
       /\ lastEvent'.type = "submit" =>
            /\ Len(requests') = Len(requests) + 1
            /\ stories'.isLoading
            /\ ~stories'.isError
    ]_vars

\* C9: a keystroke leaves the url as it is; in every reachable state the url is
\* the endpoint followed by the search term as it was at the last submission,
\* or at mount when there was none.
C9_TargetLagsSearchTerm ==
  mounted => url = API_ENDPOINT \o submittedTerm

\* after a keystroke the search term differs from the one the url was built from
C9_Witness ==
  /\ mounted
  /\ lastEvent.type = "input"
  /\ searchTerm # submittedTerm
  /\ searchTerm # ""
  /\ url = API_ENDPOINT \o submittedTerm
  /\ url # API_ENDPOINT \o searchTerm

UPPER == "ABCDEFGHIJKLMNOPQRSTUVWXYZ"

LOWER == "abcdefghijklmnopqrstuvwxyz"

\* the i-th character of s
CharAt(s, i) == SubSeq(s, i, i)

\* the lower-case letter of each upper-case letter
lowerCaseOf ==
  [c \in {CharAt(UPPER, k) : k \in 1..Len(UPPER)} |->
     CharAt(LOWER, CHOOSE k \in 1..Len(UPPER) : CharAt(UPPER, k) = c)]

RECURSIVE toLowerCase(_)
\* String.prototype.toLowerCase, on letters A-Z
toLowerCase(s) ==
  IF s = "" THEN ""
  ELSE LET c == CharAt(s, 1)
       IN (IF c \in DOMAIN lowerCaseOf THEN lowerCaseOf[c] ELSE c)
            \o toLowerCase(SubSeq(s, 2, Len(s)))

\* String.prototype.includes that compares letters as they are
includes(s, t) ==
  \E i \in 0..Len(s) : i + Len(t) <= Len(s) /\ SubSeq(s, i + 1, i + Len(t)) = t

\* the filter of the version that lists a fixed array: a comparison of the
\* title with the search term that forgets to lower the search term
searchedStories_TermAsTyped(list, term) ==
  SelectSeq(list, LAMBDA story : includes(toLowerCase(story.title), term))

\* the filter of the version that lists a fixed array of stories
searchedStories(list, term) ==
  SelectSeq(list, LAMBDA story :
    includes(toLowerCase(story.title), toLowerCase(term)))

\* the fixed array of that version
staticStories == << Story(0), Story(1) >>

\* the list handed to List by the version that fetches: none while loading
RenderedList == IF stories.isLoading THEN <<>> ELSE << stories.data >>

\* the search terms typed when the rendered list is looked at
ViewTerms == {"", "RE", "eD", "z"}

InitView ==
  /\ key = "search"
  /\ initialState = ""
  /\ \E s \in {<<>>} \cup {<<t>> : t \in ViewTerms} :
       localStorage = [k \in Keys |-> IF k = "search" THEN s ELSE <<>>]
  /\ Unmounted
  /\ NoDispatchHistory

NextView ==
  \/ Mount
  \/ \E value \in ViewTerms : handleSearchInput(value)
  \/ handleSearchSubmit
  \/ \E item \in Stories : handleRemoveStory(item)
  \/ \E i \in 1..MaxRequests, hits \in Payloads : Resolve(i, hits)
  \/ \E i \in 1..MaxRequests, error \in Errors : Reject(i, error)
  \/ Unload

SpecView == InitView /\ [][NextView]_vars

\* c and d are the same letter, in the same or in different case
SameLetter(c, d) ==
  \/ c = d
  \/ {c, d} \in {{CharAt(UPPER, k), CharAt(LOWER, k)} : k \in 1..Len(UPPER)}

\* term occurs in title as a substring when case is ignored
ContainsIgnoringCase(title, term) ==
  \E i \in 0..Len(title) :
    /\ i + Len(term) <= Len(title)
    /\ \A j \in 1..Len(term) : SameLetter(CharAt(title, i + j), CharAt(term, j))

\* the stories of list whose title contains term when case is ignored, in order
TitleMatches(list, term) ==
  SelectSeq(list, LAMBDA story : ContainsIgnoringCase(story.title, term))

KnownTypes ==
  {"STORIES_FETCH_INIT", "STORIES_FETCH_SUCCESS", "STORIES_FETCH_FAILURE", "REMOVE_STORY"}

\* C13: REMOVE_STORY is applied whatever isLoading and isError are, and leaves
\* both as they were: it changes nothing but data.
C13_RemoveTouchesOnlyData ==
  (lastAction.type = "REMOVE_STORY") =>
    /\ ~threw
    /\ stories.isLoading = prev.isLoading
    /\ stories.isError = prev.isError
    /\ stories.data =
         SelectSeq(prev.data, LAMBDA story : story.objectID # lastAction.payload.objectID)

\* a story removed from a state that is loading and failed at once
C13_Witness ==
  /\ lastAction.type = "REMOVE_STORY"
  /\ prev.isLoading /\ prev.isError
  /\ stories.isLoading /\ stories.isError
  /\ Len(stories.data) + 1 = Len(prev.data)
  /\ stories.data # <<>>

\* C14: an action of a type other than the four known ones makes the reducer
\* throw, whatever the prior state: no state is returned, and the state stays
\* as it was; an action of a known type does not throw.
C14_UnknownActionThrows ==
  /\ (lastAction.type \notin KnownTypes \cup {"none"}) => (threw /\ stories = prev)
  /\ (lastAction.type \in KnownTypes) => ~threw

\* FOO dispatched on a loading state that holds stories
C14_Witness ==
  /\ lastAction.type = "FOO"
  /\ threw
  /\ prev.isLoading
  /\ prev.data # <<>>

\* C16: dispatching REMOVE_STORY for the same objectID twice yields the state
\* that dispatching it once yields, and when no story of data has that
\* objectID each dispatch leaves data, isLoading and isError as they were.
C16_RemoveIdempotent ==
  /\ \A item \in Items :
       LET action == [payload |-> item, type |-> "REMOVE_STORY"]
           once == storiesReducer(stories, action)
       IN /\ storiesReducer(once, action) = once
          /\ (\A i \in DOMAIN stories.data : stories.data[i].objectID # item.objectID)
               => once = stories
  /\ (/\ lastAction.type = "REMOVE_STORY"
      /\ \A i \in DOMAIN prev.data : prev.data[i].objectID # lastAction.payload.objectID)
       => stories = prev

\* the second removal of a story that was in data: nothing changes
C16_Witness ==
  /\ lastAction.type = "REMOVE_STORY"
  /\ \E i \in DOMAIN initData : initData[i].objectID = lastAction.payload.objectID
  /\ \A i \in DOMAIN prev.data : prev.data[i].objectID # lastAction.payload.objectID
  /\ stories = prev
  /\ stories.data # <<>>

\* request i is in flight
Pending(i) == i \in DOMAIN requests /\ requests[i].status = "pending"

\* request i settles in this step
Settles(i) ==
  /\ Pending(i)
  /\ i \in DOMAIN requests'
  /\ requests'[i].status \in {"resolved", "rejected"}

\* a request is issued in this step
Issues == Len(requests') = Len(requests) + 1

\* C15: isLoading goes from false to true only in a step that triggers a new
\* request (the mount or a submission), from true to false only in a step in
\* which a request in flight resolves or rejects, and no keystroke and no
\* REMOVE_STORY changes it.
C15_LoadingTransitions ==
  [][mounted' =>
       /\ (~stories.isLoading /\ stories'.isLoading) =>
            (Issues /\ lastEvent'.type \in {"mount", "submit"})
       /\ (stories.isLoading /\ ~stories'.isLoading) =>
            (\E i \in DOMAIN requests : Settles(i))
       /\ (lastEvent'.type \in {"input", "remove"}) =>
            stories'.isLoading = stories.isLoading
    ]_vars

\* loading again by a submission, after the first request has settled
C15_Witness ==
  /\ mounted
  /\ lastEvent.type = "submit"
  /\ Len(requests) = 2
  /\ requests[1].status # "pending"
  /\ requests[2].status = "pending"
  /\ stories.isLoading

\* C17: a request is issued in a step that dispatches STORIES_FETCH_INIT, it
\* settles at most once, and the step in which it settles dispatches its one
\* outcome: STORIES_FETCH_SUCCESS with the payload when it resolves,
\* STORIES_FETCH_FAILURE when it rejects, whatever the error; a step in which
\* no request is issued or settles dispatches none of the three.
C17_OneInitOneOutcome ==
  [][mounted' =>
       /\ Len(requests') \in {Len(requests), Len(requests) + 1}
       /\ Issues =>
            /\ requests'[Len(requests')].status = "pending"
            /\ \A i \in DOMAIN requests : requests'[i] = requests[i]
            /\ stories' = STORIES_FETCH_INIT(stories, [type |-> "STORIES_FETCH_INIT"])
       /\ \A i \in DOMAIN requests :
            /\ ~Pending(i) => requests'[i] = requests[i]
            /\ Settles(i) =>
                 /\ \A j \in DOMAIN requests \ {i} : requests'[j] = requests[j]
                 /\ ~Issues
                 /\ lastEvent'.req = i
                 /\ requests'[i].status = "resolved" =>
                      /\ lastEvent'.type = "resolve"
                      /\ stories' = STORIES_FETCH_SUCCESS(stories,
                           [payload |-> lastEvent'.payload, type |-> "STORIES_FETCH_SUCCESS"])
                 /\ requests'[i].status = "rejected" =>
                      /\ lastEvent'.type = "reject"
                      /\ lastEvent'.payload[1] \in Errors
                      /\ stories' = STORIES_FETCH_FAILURE(stories,
                           [type |-> "STORIES_FETCH_FAILURE"])
       /\ (requests' = requests) =>
            /\ lastEvent'.type \in {"input", "submit", "remove"}
            /\ stories'.isLoading = stories.isLoading
            /\ stories'.isError = stories.isError
    ]_vars

\* two requests, one resolved with stories and one rejected by the status
\* code of its response
C17_Witness ==
  /\ mounted
  /\ Len(requests) = 2
  /\ requests[1].status = "resolved"
  /\ requests[2].status = "rejected"
  /\ lastEvent.type = "reject"
  /\ lastEvent.payload = << [message |-> "Request failed with status code 404"] >>
  /\ stories.isError /\ ~stories.isLoading
  /\ stories.data # <<>>

\* C18: after the mount, when no request is in flight, isLoading is false.
C18_IdleWhenNothingInFlight ==
  (mounted /\ \A i \in DOMAIN requests : ~Pending(i)) => ~stories.isLoading

\* two overlapping requests settled newest first, the older one last
C18_Witness ==
  /\ mounted
  /\ Len(requests) = 2
  /\ \A i \in DOMAIN requests : ~Pending(i)
  /\ lastEvent.type \in {"resolve", "reject"}
  /\ lastEvent.req = 1
  /\ ~stories.isLoading

\* the value the slot of the key holds, the default when it holds none
PersistedTerm == IF localStorage[key] = <<>> THEN initialState ELSE localStorage[key][1]

\* C20: the mount itself issues the first request, with no submission, for
\* the endpoint followed by the persisted search term (the default when the
\* slot is absent); and what a session leaves in the slot is the value typed
\* last, submitted or not.
C20_FirstRequestFromPersistedTerm ==
  [][/\ (~mounted /\ mounted') =>
          /\ lastEvent'.type = "mount"
          /\ requests' = << [status |-> "pending", url |-> API_ENDPOINT \o PersistedTerm] >>
          /\ url' = API_ENDPOINT \o PersistedTerm
     /\ (mounted /\ ~mounted') => localStorage'[key] = << searchTerm >>
     /\ (mounted /\ mounted' /\ searchTerm' # searchTerm) =>
          (lastEvent'.type = "input" /\ localStorage'[key] = << searchTerm' >>)
    ]_vars

\* just after the mount over a slot that held a term: the request in flight
\* asks for that term
C20_Witness ==
  /\ mounted
  /\ lastEvent.type = "mount"
  /\ slotAtInit = << "aa" >>
  /\ requests = << [status |-> "pending", url |-> API_ENDPOINT \o "aa"] >>
  /\ stories.isLoading

\* ---------------------------------------------------------------------------
\* liveness: the await of axios.get ends when the request settles

\* some request in flight resolves or rejects
Settle ==
  \/ \E i \in 1..MaxRequests, hits \in Payloads : Resolve(i, hits)
  \/ \E i \in 1..MaxRequests, error \in Errors : Reject(i, error)

\* the application under a service that answers every request it has received
SpecLive == Init /\ [][Next]_vars /\ WF_vars(Settle)

\* C19: when every request settles (the fairness of SpecLive) and from some
\* point on no request is issued any more, isLoading is eventually false for
\* good; and a step that neither settles nor issues a request leaves a true
\* isLoading true, so that with its request never settling the loading state
\* never ends.
C19_LoadingEnds ==
  /\ (<>[][~Issues]_vars) => <>[](~stories.isLoading)
  /\ [][(mounted' /\ stories.isLoading /\ requests' = requests) => stories'.isLoading]_vars

\* both requests of a session answered, the newest last with stories
C19_Witness ==
  /\ mounted
  /\ Len(requests) = 2
  /\ \A i \in DOMAIN requests : ~Pending(i)
  /\ lastEvent.type = "resolve"
  /\ lastEvent.req = 2
  /\ ~stories.isLoading /\ ~stories.isError

====
